---------------------------- MODULE Spec2Model ----------------------------
(***************************************************************************)
(* The streaming (gRPC) broker client of gominion: GrpcClient.Start, Send, *)
(* initSinkStream, initRPCStream (receive loop and supervisor goroutines), *)
(* sendMinionHeaders, processRequest and sendResponse, as one state        *)
(* machine.  Every goroutine is a task with a program counter; a step that *)
(* reads or writes a shared field of GrpcClient is one action.  Reads of   *)
(* cli.sinkStream / cli.rpcStream made outside the mutexes are separate    *)
(* steps from the later use of the field, as in the source.  rootHandler    *)
(* (IsValid, ParseListeners, GetBroker, Start, the interrupt, Stop) is the *)
(* main task; ConfigSpec runs the configuration part of it on its own,     *)
(* CodecSpec the chunk reassembly of the wire codec, and NxosSpec the      *)
(* NX-OS telemetry module (sink.NxosGrpcModule) with its handler tasks.    *)
(***************************************************************************)
EXTENDS Integers, Sequences, FiniteSets, TLC

\* ------------------------------------------------------------------ bounds
\* Entries of the listener flag given on the command line.
MaxFlags == 2
\* Bytes of a payload given to the wire codec, and bytes of a chunk.
MaxPayload == 4
MaxChunkSize == 3
\* Client sessions of the NX-OS telemetry server, telemetry messages of a
\* session, and calls of the module's Stop.
MaxSessions == 2
MaxTelemetry == 1
MaxStops == 2
\* Send calls made by the ingress worker of each Sink module.
MaxSends == 1
\* RPC streams the server accepts (the one of Start plus the recoveries).
MaxRpcStreams == 2
\* RPC requests the server sends over the life of the process.
MaxReqs == 2

\* ------------------------------------------------------------- vocabulary
NIL == 0

\* The Sink modules of the registry; the ingress worker of module m calls Send.
Modules == {"m1", "m2"}

\* ModuleIds an RPC request may carry.
ModuleIds == {"Echo", "Unknown"}

\* The RPC modules registered at process init (api.GetRPCModule finds these).
RegisteredRPCModules == {"Echo"}

RpcIds  == 1..(MaxRpcStreams + 1)
ReqIds  == 1..(MaxReqs + 1)

\* What the outside world does in one run: how many messages each module's
\* worker forwards, how many requests the server sends and how many RPC streams
\* it accepts, whether the operator interrupts the process, whether the
\* configuration has a trace agent, and which sets of Sink modules may fail to
\* start (all of them where telemetry arrives or the agent is stopped).  A
\* run has telemetry arriving while the server opens one RPC stream and sends
\* nothing on it, or a server whose
\* streams end and are reopened around one request, or a server that sends all
\* its requests on the one stream it accepts; or the operator interrupts an
\* agent whose RPC stream may end and be reopened once, or one that may have
\* received a request; or the dial fails: grpc.Dial rejects its options, or the
\* server is not reachable and never becomes so.
Workloads ==
    { [sends |-> MaxSends, reqs |-> 0,       streams |-> 1,
       interrupt |-> FALSE, tracing |-> TRUE,  dial |-> "ready",
       modFail |-> SUBSET Modules],
      [sends |-> 0,        reqs |-> 1,       streams |-> MaxRpcStreams,
       interrupt |-> FALSE, tracing |-> TRUE,  dial |-> "ready",
       modFail |-> {{}}],
      [sends |-> 0,        reqs |-> MaxReqs, streams |-> 1,
       interrupt |-> FALSE, tracing |-> TRUE,  dial |-> "ready",
       modFail |-> {{}}],
      [sends |-> 0,        reqs |-> 0,       streams |-> 2,
       interrupt |-> TRUE,  tracing |-> FALSE, dial |-> "ready",
       modFail |-> SUBSET Modules],
      [sends |-> 0,        reqs |-> 1,       streams |-> 1,
       interrupt |-> TRUE,  tracing |-> TRUE,  dial |-> "ready",
       modFail |-> {{}}],
      [sends |-> 0,        reqs |-> 0,       streams |-> 1,
       interrupt |-> FALSE, tracing |-> TRUE,  dial |-> "error",
       modFail |-> {{}}],
      [sends |-> 0,        reqs |-> 0,       streams |-> 1,
       interrupt |-> FALSE, tracing |-> TRUE,  dial |-> "unreachable",
       modFail |-> {{}}] }

\* A free mutex (sync.Mutex unlocked).
FreeSink == "free"
FreeRpc  == <<"free", NIL>>

\* ------------------------------------------------------ api.MinionConfig
\* A string that the code takes apart is a sequence of tokens: the separators
\* "," and "." are tokens of their own, a digit is a token, and a run of other
\* characters is one token.  The empty string is <<>>.
Digits == {"0", "1", "2", "3", "4", "5", "6", "7", "8", "9"}

\* strings.Split(s, sep): the substrings between the separators, one more than
\* there are separators.
RECURSIVE Split(_, _)
Split(s, sep) ==
    IF \A i \in 1..Len(s) : s[i] # sep
    THEN <<s>>
    ELSE LET i == CHOOSE k \in 1..Len(s) :
                      s[k] = sep /\ \A j \in 1..(k - 1) : s[j] # sep
         IN  <<SubSeq(s, 1, i - 1)>> \o Split(SubSeq(s, i + 1, Len(s)), sep)

\* A GetParser that returns the first section.
GetParserFirstSection(listener) ==
    IF listener.Parser = <<>>
    THEN <<>>
    ELSE LET sections == Split(listener.Parser, ".") IN sections[1]

\* MinionListener.GetParser (config.go, lines 17-23).
GetParser(listener) ==
    IF listener.Parser = <<>>
    THEN <<>>
    ELSE LET sections == Split(listener.Parser, ".") IN sections[Len(sections)]

\* The listener at the least of the given indices, as a sequence of one
\* listener, or <<>> (the nil pointer) when there is none: what a loop over
\* the listeners that returns at the first match returns.
FirstListener(ls, matches) ==
    IF matches = {} THEN <<>>
    ELSE <<ls[CHOOSE i \in matches : \A j \in matches : i <= j]>>

\* MinionConfig.GetListener (config.go, lines 39-46).
GetListener(cfg, name) ==
    FirstListener(cfg.Listeners,
                  {i \in 1..Len(cfg.Listeners) : cfg.Listeners[i].Name = name})

\* MinionConfig.GetListenerByParser: the listener whose parser's final dotted
\* segment is the given name.
GetListenerByParser(cfg, parser) ==
    FirstListener(cfg.Listeners,
                  {i \in 1..Len(cfg.Listeners) : GetParser(cfg.Listeners[i]) = parser})

\* An IsValid that does not look at Location.
IsValidNoLocation(cfg) ==
    IF cfg.ID = "" THEN "Minion ID required"
    ELSE IF cfg.BrokerURL = "" THEN "Broker URL required"
    ELSE "nil"

\* MinionConfig.IsValid (config.go, lines 54-65): the error, or "nil".
IsValid(cfg) ==
    IF cfg.ID = "" THEN "Minion ID required"
    ELSE IF cfg.Location = "" THEN "Location required"
    ELSE IF cfg.BrokerURL = "" THEN "Broker URL required"
    ELSE "nil"

\* The decimal value of a sequence of digits (the port of a listener entry).
DigitValue(d) ==
    CASE d = "0" -> 0 [] d = "1" -> 1 [] d = "2" -> 2 [] d = "3" -> 3 [] d = "4" -> 4
      [] d = "5" -> 5 [] d = "6" -> 6 [] d = "7" -> 7 [] d = "8" -> 8 [] d = "9" -> 9

RECURSIVE Atoi(_)
Atoi(s) ==
    IF s = <<>> THEN 0
    ELSE 10 * Atoi(SubSeq(s, 1, Len(s) - 1)) + DigitValue(s[Len(s)])

\* One entry of the listener flag, Name,Port,Parser: the listener it stands
\* for, as a sequence of one listener; an entry of fewer than three fields is
\* rejected (logged) and stands for none.
ParseListener(csv) ==
    LET parts == Split(csv, ",")
    IN  IF Len(parts) < 3 THEN <<>>
        ELSE <<[Name |-> parts[1], Port |-> Atoi(parts[2]), Parser |-> parts[3]]>>

\* MinionConfig.ParseListeners: the listeners of the well-formed entries are
\* appended, in order, to the listeners the configuration has.
RECURSIVE ParseListeners(_, _)
ParseListeners(ls, csvs) ==
    IF csvs = <<>> THEN ls
    ELSE ParseListeners(ls \o ParseListener(Head(csvs)), Tail(csvs))

\* The error ParseListeners returns: none for a rejected entry.
ParseListenersError(csvs) == FALSE

\* broker.GetBroker: the broker implementation of the configured BrokerType,
\* nil for a type that has none.
KnownBrokerTypes == {"grpc"}
GetBroker(cfg) == cfg.BrokerType \in KnownBrokerTypes

\* The listeners of the configuration file.
YamlListeners ==
    << [Name |-> <<"Netflow-5">>, Port |-> 18877, Parser |-> <<"Netflow5UdpParser">>],
       [Name |-> <<"Netflow-9">>, Port |-> 14729, Parser |-> <<"Netflow9UdpParser">>] >>

\* Entries of the listener flag: well-formed ones (with a simple or a fully
\* qualified parser name, or with an empty parser), and malformed ones.
FlagEntries ==
    { <<"Graphite", ",", "1", "2", ",", "ForwardParser">>,
      <<"NXOS", ",", "5", "0", ",", "NxosGrpcParser">>,
      <<"NXOS-FQ", ",", "5", "1", ",", "org", ".", "opennms", ".", "NxosGrpcParser">>,
      <<"Odd", ",", "7", ",">>,
      <<"Wrong1", ",", "1", "0">>,
      <<"Wrong2">>,
      <<>> }

FlagLists == UNION { [1..n -> FlagEntries] : n \in 0..MaxFlags }

\* The parser names modules look up.
ParserNames ==
    { <<"ForwardParser">>, <<"NxosGrpcParser">>, <<"Netflow9UdpParser">>,
      <<"SFlowUdpParser">>, <<>> }

\* The configurations of the file and the flags: each of ID, Location and
\* BrokerURL given or empty, a broker type, and the listeners of the file.
Configs ==
    [ID : {"", "go-minion1"}, Location : {"", "Test"},
     BrokerURL : {"", "10.0.0.100:8990"}, BrokerType : {"grpc", "unknown"},
     Listeners : {<<>>, YamlListeners}]

\* The configurations and the listener flag the broker is run with.
MainConfigs == {c \in Configs : c.Listeners = YamlListeners}
MainListeners ==
    << <<"Graphite", ",", "1", "2", ",", "ForwardParser">>, <<"Wrong1", ",", "1", "0">> >>

NoLookup == [called |-> FALSE, parser |-> <<>>, found |-> <<>>]

\* ------------------------------------------------------------ wire codec
\* The ids of chunked messages, the bytes of a payload, the payloads and the
\* chunk sizes.
MessageIds == {"msg-1"}
Bytes == {"a", "b"}
Payloads == UNION { [1..n -> Bytes] : n \in 1..MaxPayload }
ChunkSizes == 1..MaxChunkSize

\* total-chunks == ceil(|P| / S).
TotalChunks(payload, size) == (Len(payload) + size - 1) \div size

\* encode(P, S): the chunks of a payload, each with the message id, the number
\* of chunks, its index in [0, total), current-count = index + 1 and its part
\* of the payload: size bytes, the last chunk the rest.
Encode(id, payload, size) ==
    { [id |-> id, total |-> TotalChunks(payload, size), index |-> i, current |-> i + 1,
       data |-> SubSeq(payload, i * size + 1,
                       IF (i + 1) * size < Len(payload) THEN (i + 1) * size
                                                          ELSE Len(payload))] :
      i \in 0..(TotalChunks(payload, size) - 1) }

\* The payload of a reassembly entry: its slots in index order.
RECURSIVE Assemble(_, _, _)
Assemble(entry, i, total) ==
    IF i >= total THEN <<>> ELSE entry[i] \o Assemble(entry, i + 1, total)

\* A codec that is not in use, and the codecs with one message encoded and none
\* of its chunks arrived: the reassembly table is empty, nothing was handed to
\* the application.
NoCodec == [payload |-> <<>>, size |-> 1, wire |-> {}, table |-> <<>>, handed |-> <<>>]
Codecs ==
    { [payload |-> p, size |-> s, wire |-> Encode(id, p, s),
       table |-> <<>>, handed |-> <<>>] :
      id \in MessageIds, p \in Payloads, s \in ChunkSizes }

\* ------------------------------------------------- sink.NxosGrpcModule
\* The parser of the NX-OS module (nxos-grpc.go, line 30).
NxosParser == <<"NxosGrpcParser">>

\* The client sessions (MdtDialout streams) the telemetry server accepts.
SessionIds == 1..MaxSessions

\* A session no client has opened: no handler task, the stream not ended,
\* nothing received and nothing forwarded to the broker.
NoSession == [pc |-> "none", closed |-> FALSE, got |-> 0, forwarded |-> 0]

\* The module as the registry holds it (line 91): every field zero.  ret is
\* what Start returned, socket the TCP listener of line 44, serve the goroutine
\* of lines 48-52, stops the calls of Stop.
NoNxos == [ret |-> "none", server |-> "nil", port |-> 0, socket |-> "none",
           serve |-> "none", stops |-> 0,
           sessions |-> [k \in SessionIds |-> NoSession]]

\* Entries of the listener flag for the NX-OS module: with the simple or the
\* fully qualified parser name, with port 0, for another module, malformed.
NxosFlagEntries ==
    { <<"NXOS", ",", "5", "0", ",", "NxosGrpcParser">>,
      <<"NXOS-FQ", ",", "5", "1", ",", "org", ".", "opennms", ".", "NxosGrpcParser">>,
      <<"NXOS-0", ",", "0", ",", "NxosGrpcParser">>,
      <<"Graphite", ",", "1", "2", ",", "ForwardParser">>,
      <<"NXOS-Wrong", ",", "NxosGrpcParser">> }

\* The listener flags the module is run with: no entry, one entry, and two
\* entries for the parser of which one has port 0.
NxosFlagLists ==
    UNION { [1..n -> NxosFlagEntries] : n \in 0..1 }
      \cup { << <<"NXOS-0", ",", "0", ",", "NxosGrpcParser">>,
                <<"NXOS", ",", "5", "0", ",", "NxosGrpcParser">> >>,
             << <<"NXOS", ",", "5", "0", ",", "NxosGrpcParser">>,
                <<"NXOS-0", ",", "0", ",", "NxosGrpcParser">> >> }

VARIABLES
    nxos,          \* the NX-OS telemetry module: its fields, goroutines, sessions
    config,        \* minionConfig: ID, Location, BrokerURL, BrokerType, Listeners
    listeners,     \* the entries of the listener flag (cmd.listeners)
    validErr,      \* what IsValid returned to rootHandler, "unchecked" before
    lookup,        \* the last GetListenerByParser call: its argument and result
    codec,         \* the wire codec: a chunked message in flight and the receiver
    load,          \* the workload of this run (never changes)
    mainPc,        \* position of rootHandler inside GrpcClient.Start and Stop
    startErr,      \* the step whose error Start returned, or "none"
    crashed,       \* "no", or the panic that killed the process
    conn,          \* cli.conn: "nil" or "open"
    connState,     \* cli.conn.GetState(): "Ready" or "NotReady"
    modStarted,    \* Sink modules whose Start returned nil
    modDisabled,   \* Sink modules whose Start returned an error (logged)
    modStopped,    \* Sink modules whose Stop was invoked
    traceCloser,   \* cli.traceCloser: "nil", "open" or "closed"
    sinkStream,    \* cli.sinkStream: NIL or a stream id
    sinkCloseSend, \* the Sink streams CloseSend was called on
    nextSink,      \* id of the next Sink stream the server opens
    sinkMutex,     \* cli.sinkMutex: FreeSink or the module whose worker holds it
    snd,           \* per Sink module: the state of its worker's Send call
    sinkMetrics,   \* per module: sink_msg_delivery_succeeded / failed
    rpcStream,     \* cli.rpcStream: NIL or a stream id
    nextRpc,       \* id of the next RPC stream the server opens
    rpcMutex,      \* cli.rpcMutex: FreeRpc or the task holding it
    rpc,           \* per RPC stream: what was written on it, Context().Done()
    loop,          \* per RPC stream: the receive goroutine spawned for it
    sup,           \* per RPC stream: the supervisor goroutine spawned for it
    nextReq,       \* id of the next request the server sends
    req,           \* per request: its fields and its worker goroutine
    rpcMetrics     \* the rpc_* counters

cfgVars  == <<config, listeners, validErr, lookup, codec, nxos>>
mainVars == <<cfgVars, load, mainPc, startErr, conn, modStarted, modDisabled, modStopped,
              traceCloser>>
sinkVars == <<sinkStream, sinkCloseSend, nextSink, sinkMutex, snd, sinkMetrics>>
rpcVars  == <<rpcStream, nextRpc, rpcMutex, rpc, loop, sup, nextReq, req, rpcMetrics>>
vars == <<nxos, config, listeners, validErr, lookup, codec, load, mainPc, startErr, crashed, conn, connState, modStarted, modDisabled,
          modStopped, traceCloser,
          sinkStream, sinkCloseSend, nextSink, sinkMutex, snd, sinkMetrics,
          rpcStream, nextRpc, rpcMutex, rpc, loop, sup, nextReq, req, rpcMetrics>>

\* The process is running: no goroutine panicked and rootHandler neither exited
\* through log.Fatalf nor returned.
Alive == crashed = "no" /\ mainPc \notin {"fatal", "exited"}

\* A Send call that has not started.  attempts counts the calls of initSinkStream,
\* opened is the stream such a call opened, wrote is the stream sinkStream.Send
\* was called on, ret is what Send returned.
NoCall == [pc |-> "idle", calls |-> 0, attempts |-> 0, needed |-> FALSE,
           opened |-> NIL, wrote |-> NIL, ret |-> "none", retNil |-> 0, retErr |-> 0]

NoStream == [first |-> "none", hdr |-> FALSE, done |-> FALSE, closeSend |-> FALSE]
NoLoop   == [pc |-> "none", target |-> NIL]
NoReq    == [module |-> "none", expired |-> FALSE, stream |-> NIL, w |-> "none",
             executed |-> FALSE, execs |-> 0, response |-> "none", respOn |-> NIL]
NoMetrics == [reqReceivedSucceeded |-> 0, reqReceivedFailed |-> 0,
              reqProcessedSucceeded |-> 0, reqProcessedFailed |-> 0,
              resSentSucceeded |-> 0, resSentFailed |-> 0]

\* The broker and the handler before rootHandler runs.
InitBroker ==
    /\ mainPc = "validate"
    /\ validErr = "unchecked"
    /\ lookup = NoLookup
    /\ nxos = NoNxos
    /\ startErr = "none"
    /\ crashed = "no"
    /\ conn = "nil"
    /\ connState = "NotReady"
    /\ modStarted = {}
    /\ modDisabled = {}
    /\ modStopped = {}
    /\ traceCloser = "nil"
    /\ sinkStream = NIL
    /\ sinkCloseSend = {}
    /\ nextSink = 1
    /\ sinkMutex = FreeSink
    /\ snd = [m \in Modules |-> NoCall]
    /\ sinkMetrics = [m \in Modules |-> [succeeded |-> 0, failed |-> 0]]
    /\ rpcStream = NIL
    /\ nextRpc = 1
    /\ rpcMutex = FreeRpc
    /\ rpc = [s \in RpcIds |-> NoStream]
    /\ loop = [s \in RpcIds |-> NoLoop]
    /\ sup = [s \in RpcIds |-> "none"]
    /\ nextReq = 1
    /\ req = [r \in ReqIds |-> NoReq]
    /\ rpcMetrics = NoMetrics

\* The agent is started with one of the configurations and listener flags of
\* MainConfigs, MainListeners, in one of the workloads.
Init ==
    /\ InitBroker
    /\ load \in Workloads
    /\ config \in MainConfigs
    /\ listeners = MainListeners
    /\ codec = NoCodec

\* ------------------------------------------------------- the transport
\* cli.conn.GetState() is what the transport reports; it changes under the
\* program at any time once the connection is dialed.
ConnDown ==
    /\ Alive /\ conn = "open" /\ connState = "Ready"
    /\ connState' = "NotReady"
    /\ UNCHANGED <<crashed, mainVars, sinkVars, rpcVars>>

ConnUp ==
    /\ Alive /\ conn = "open" /\ connState = "NotReady"
    /\ connState' = "Ready"
    /\ UNCHANGED <<crashed, mainVars, sinkVars, rpcVars>>

\* ------------------------------------------------------------ rootHandler
\* A handler that goes on although the configuration is not valid.
rootHandler_IsValidIgnored ==
    /\ Alive /\ mainPc = "validate"
    /\ validErr' = IsValid(config)
    /\ mainPc' = "parse"
    /\ UNCHANGED <<config, listeners, lookup, codec, nxos, load, startErr, crashed, conn, connState,
                   modStarted, modDisabled, modStopped, traceCloser, sinkVars, rpcVars>>

\* Lines 125-127: an invalid configuration is fatal.
rootHandler_IsValid ==
    /\ Alive /\ mainPc = "validate"
    /\ validErr' = IsValid(config)
    /\ mainPc' = IF IsValid(config) = "nil" THEN "parse" ELSE "fatal"
    /\ startErr' = IF IsValid(config) = "nil" THEN "none" ELSE "config"
    /\ UNCHANGED <<config, listeners, lookup, codec, nxos, load, crashed, conn, connState,
                   modStarted, modDisabled, modStopped, traceCloser, sinkVars, rpcVars>>

\* A handler for which a malformed entry of the flag is an error.
rootHandler_ParseListenersStrict ==
    /\ Alive /\ mainPc = "parse"
    /\ config' = [config EXCEPT !.Listeners = ParseListeners(@, listeners)]
    /\ LET bad == \E i \in 1..Len(listeners) : ParseListener(listeners[i]) = <<>>
       IN  /\ mainPc' = IF bad THEN "fatal" ELSE "broker"
           /\ startErr' = IF bad THEN "listeners" ELSE "none"
    /\ UNCHANGED <<listeners, validErr, lookup, codec, nxos, load, crashed, conn, connState,
                   modStarted, modDisabled, modStopped, traceCloser, sinkVars, rpcVars>>

\* Lines 128-130: the entries of the flag are added to the configuration; an
\* error of ParseListeners is fatal.
rootHandler_ParseListeners ==
    /\ Alive /\ mainPc = "parse"
    /\ config' = [config EXCEPT !.Listeners = ParseListeners(@, listeners)]
    /\ mainPc' = IF ParseListenersError(listeners) THEN "fatal" ELSE "broker"
    /\ startErr' = IF ParseListenersError(listeners) THEN "listeners" ELSE "none"
    /\ UNCHANGED <<listeners, validErr, lookup, codec, nxos, load, crashed, conn, connState,
                   modStarted, modDisabled, modStopped, traceCloser, sinkVars, rpcVars>>

\* Lines 134-138: no broker implementation for the configured type is fatal;
\* otherwise the handler calls the broker's Start.
rootHandler_GetBroker ==
    /\ Alive /\ mainPc = "broker"
    /\ mainPc' = IF GetBroker(config) THEN "setup" ELSE "fatal"
    /\ startErr' = IF GetBroker(config) THEN "none" ELSE "broker"
    /\ UNCHANGED <<cfgVars, load, crashed, conn, connState,
                   modStarted, modDisabled, modStopped, traceCloser, sinkVars, rpcVars>>

\* A module looks up its listener by the simple name of its parser (as
\* NxosGrpcModule.Start does, nxos-grpc.go line 30).
module_GetListenerByParser(parser) ==
    /\ Alive /\ mainPc = "setup"
    /\ lookup' = [called |-> TRUE, parser |-> parser,
                  found |-> GetListenerByParser(config, parser)]
    /\ UNCHANGED <<config, listeners, validErr, codec, nxos, load, mainPc, startErr, crashed, conn,
                   connState, modStarted, modDisabled, modStopped, traceCloser,
                   sinkVars, rpcVars>>

\* ------------------------------------------------------ GrpcClient.Start
\* Lines 112-148: the nil checks (rootHandler passes config, registry and
\* metrics), the two mutexes, initTracing and the TLS credentials.  Either of
\* the last two may fail, and Start returns the error.  initTracing returns a
\* closer when the configuration has a trace agent.
Start_setup ==
    /\ Alive /\ mainPc = "setup"
    /\ \E ok \in BOOLEAN :
         /\ mainPc' = IF ok THEN "dial" ELSE "fatal"
         /\ startErr' = IF ok THEN "none" ELSE "setup"
         /\ traceCloser' = IF ok /\ load.tracing THEN "open" ELSE "nil"
    /\ sinkMutex' = FreeSink
    /\ rpcMutex' = FreeRpc
    /\ UNCHANGED <<cfgVars, load, crashed, conn, connState, modStarted, modDisabled, modStopped,
                   sinkStream, sinkCloseSend, nextSink, snd, sinkMetrics,
                   rpcStream, nextRpc, rpc, loop, sup, nextReq, req, rpcMetrics>>

\* Lines 129-154: grpc.Dial with WithBlock, without a timeout and under
\* context.Background(): it returns an error when it rejects its options, and
\* otherwise blocks until the connection is Ready, for ever when the server is
\* never reachable.
Start_dial ==
    /\ Alive /\ mainPc = "dial"
    /\ load.dial # "unreachable"
    /\ IF load.dial = "ready"
       THEN /\ conn' = "open" /\ connState' = "Ready" /\ mainPc' = "sink"
            /\ startErr' = "none"
       ELSE /\ mainPc' = "fatal" /\ startErr' = "dial"
            /\ UNCHANGED <<conn, connState>>
    /\ UNCHANGED <<cfgVars, load, crashed, modStarted, modDisabled, modStopped, traceCloser,
                   sinkVars, rpcVars>>

\* initSinkStream (lines 222-238) between Lock and the deferred Unlock: the old
\* stream, if any, is half-closed, and cli.sinkStream is assigned what
\* SinkStreaming returned: the new stream, or nil together with the error.  A
\* stream is opened only on a connection that was not closed.
initSinkStream(ok) ==
    /\ ok => conn = "open"
    /\ sinkCloseSend' = IF sinkStream # NIL THEN sinkCloseSend \cup {sinkStream}
                                            ELSE sinkCloseSend
    /\ sinkStream' = IF ok THEN nextSink ELSE NIL
    /\ nextSink' = IF ok THEN nextSink + 1 ELSE nextSink

\* A Start that goes on to the modules although the Sink stream was not opened.
Start_initSinkStreamErrorIgnored ==
    /\ Alive /\ mainPc = "sink"
    /\ sinkMutex = FreeSink
    /\ \E ok \in BOOLEAN : initSinkStream(ok)
    /\ mainPc' = "modules"
    /\ UNCHANGED <<cfgVars, load, startErr, crashed, conn, connState, modStarted, modDisabled,
                   modStopped, traceCloser, sinkMutex, snd, sinkMetrics, rpcVars>>

\* Lines 156-159.
Start_initSinkStream ==
    /\ Alive /\ mainPc = "sink"
    /\ sinkMutex = FreeSink
    /\ \E ok \in BOOLEAN :
         /\ initSinkStream(ok)
         /\ mainPc' = IF ok THEN "modules" ELSE "fatal"
         /\ startErr' = IF ok THEN "none" ELSE "sink"
    /\ UNCHANGED <<cfgVars, load, crashed, conn, connState, modStarted, modDisabled,
                   modStopped, traceCloser, sinkMutex, snd, sinkMetrics, rpcVars>>

\* SinkRegistry.StartModules: every module is started; a module whose Start
\* fails is logged and left disabled, and the others are still started.  The
\* result is the error StartModules returns (none for a module failure).
StartModulesError(failed) == FALSE

\* A Start that returns an error as soon as one module failed to start.
Start_StartModulesAbort ==
    /\ Alive /\ mainPc = "modules"
    /\ \E failed \in load.modFail :
         /\ modStarted' = Modules \ failed
         /\ modDisabled' = failed
         /\ mainPc' = IF failed # {} THEN "fatal" ELSE "rpc"
         /\ startErr' = IF failed # {} THEN "modules" ELSE "none"
    /\ UNCHANGED <<cfgVars, load, crashed, conn, connState, modStopped, traceCloser,
                   sinkVars, rpcVars>>

\* Lines 161-163: Start returns the error of StartModules, if any.
Start_StartModules ==
    /\ Alive /\ mainPc = "modules"
    /\ \E failed \in load.modFail :
         /\ modStarted' = Modules \ failed
         /\ modDisabled' = failed
         /\ mainPc' = IF StartModulesError(failed) THEN "fatal" ELSE "rpc"
         /\ startErr' = IF StartModulesError(failed) THEN "modules" ELSE "none"
    /\ UNCHANGED <<cfgVars, load, crashed, conn, connState, modStopped, traceCloser,
                   sinkVars, rpcVars>>

\* ------------------------------------------------------- GrpcClient.Send
\* Line 196: the unlocked read of cli.sinkStream and of the connection state.
SinkUnavailable == sinkStream = NIL \/ connState # "Ready"

\* A module's worker calls Send; the check of line 196 decides whether the
\* call first restarts the Sink stream.
Send_check(m) ==
    /\ Alive /\ m \in modStarted \ modStopped
    /\ snd[m].pc = "idle" /\ snd[m].calls < load.sends
    /\ snd' = [snd EXCEPT ![m] =
                 [@ EXCEPT !.pc = IF SinkUnavailable THEN "reinit" ELSE "lock",
                           !.calls = @ + 1, !.attempts = 0,
                           !.needed = SinkUnavailable,
                           !.opened = NIL, !.wrote = NIL, !.ret = "none"]]
    /\ UNCHANGED <<crashed, connState, mainVars, sinkStream, sinkCloseSend, nextSink,
                   sinkMutex, sinkMetrics, rpcVars>>

\* Lines 198-201: initSinkStream under the mutex.  When it fails Send returns
\* the error at line 199.
Send_initSinkStream(m) ==
    /\ Alive /\ snd[m].pc = "reinit"
    /\ sinkMutex = FreeSink
    /\ \E ok \in BOOLEAN :
         /\ initSinkStream(ok)
         /\ snd' = [snd EXCEPT ![m] =
                      IF ok THEN [@ EXCEPT !.pc = "lock", !.attempts = @ + 1,
                                           !.opened = nextSink]
                            ELSE [@ EXCEPT !.pc = "idle", !.attempts = @ + 1,
                                           !.ret = "err", !.retErr = @ + 1]]
    /\ UNCHANGED <<crashed, connState, mainVars, sinkMutex, sinkMetrics, rpcVars>>

\* A Send that does not take the mutex before writing.
Send_lockNoMutex(m) ==
    /\ Alive /\ snd[m].pc = "lock"
    /\ sinkMutex' = m
    /\ snd' = [snd EXCEPT ![m].pc = "write"]
    /\ UNCHANGED <<crashed, connState, mainVars, sinkStream, sinkCloseSend, nextSink,
                   sinkMetrics, rpcVars>>

\* Line 205: cli.sinkMutex.Lock().
Send_lock(m) ==
    /\ Alive /\ snd[m].pc = "lock"
    /\ sinkMutex = FreeSink
    /\ sinkMutex' = m
    /\ snd' = [snd EXCEPT ![m].pc = "write"]
    /\ UNCHANGED <<crashed, connState, mainVars, sinkStream, sinkCloseSend, nextSink,
                   sinkMetrics, rpcVars>>

\* Lines 206-218: cli.sinkStream.Send(msg) on the stream the field holds now (a
\* nil interface panics), Unlock, then the counter for the outcome.  A write on
\* a closed connection fails.
Send_write(m) ==
    /\ Alive /\ snd[m].pc = "write"
    /\ IF sinkStream = NIL
       THEN /\ crashed' = "nilSinkStream"
            /\ UNCHANGED <<sinkMutex, snd, sinkMetrics>>
       ELSE /\ \E ok \in BOOLEAN :
                 /\ ok => conn = "open"
                 /\ snd' = [snd EXCEPT ![m] =
                              IF ok THEN [@ EXCEPT !.pc = "idle", !.wrote = sinkStream,
                                                   !.ret = "nil", !.retNil = @ + 1]
                                    ELSE [@ EXCEPT !.pc = "idle", !.wrote = sinkStream,
                                                   !.ret = "err", !.retErr = @ + 1]]
                 /\ sinkMetrics' = [sinkMetrics EXCEPT ![m] =
                              IF ok THEN [@ EXCEPT !.succeeded = @ + 1]
                                    ELSE [@ EXCEPT !.failed = @ + 1]]
            /\ sinkMutex' = FreeSink
            /\ crashed' = crashed
    /\ UNCHANGED <<connState, mainVars, sinkStream, sinkCloseSend, nextSink, rpcVars>>

\* ------------------------------------------------ GrpcClient.initRPCStream
\* initRPCStream (lines 241-292) between Lock and the deferred Unlock, called by
\* Start (self = NIL) or by the supervisor of stream self: the old stream, if
\* any, is half-closed; cli.rpcStream is assigned what RpcStreaming returned
\* (the new stream, or nil together with the error); on success the receive
\* goroutine and the supervisor goroutine of the new stream are spawned; a
\* stream is opened only on a connection that was not closed.  The
\* supervisor waits on cli.rpcStream.Context().Done() of the stream it finds in
\* the field when it starts, which is the new stream: the only other callers of
\* initRPCStream are supervisors, and the caller returns once this one exists.
initRPCStream(ok, self) ==
    /\ ok => conn = "open" /\ nextRpc <= load.streams
    /\ rpcStream' = IF ok THEN nextRpc ELSE NIL
    /\ nextRpc' = IF ok THEN nextRpc + 1 ELSE nextRpc
    /\ rpc' = [s \in RpcIds |->
                 IF s = rpcStream THEN [rpc[s] EXCEPT !.closeSend = TRUE] ELSE rpc[s]]
    /\ loop' = [s \in RpcIds |->
                 IF ok /\ s = nextRpc THEN [pc |-> "hdr", target |-> NIL] ELSE loop[s]]
    /\ sup' = [s \in RpcIds |->
                 IF ok /\ s = nextRpc THEN "wait"
                 ELSE IF s = self THEN (IF ok THEN "done" ELSE "sleep")
                 ELSE sup[s]]

\* Lines 165-168.
Start_initRPCStream ==
    /\ Alive /\ mainPc = "rpc"
    /\ rpcMutex = FreeRpc
    /\ \E ok \in BOOLEAN :
         /\ initRPCStream(ok, NIL)
         /\ mainPc' = IF ok THEN "running" ELSE "fatal"
         /\ startErr' = IF ok THEN "none" ELSE "rpc"
    /\ UNCHANGED <<cfgVars, load, crashed, conn, connState, modStarted, modDisabled,
                   modStopped, traceCloser, sinkVars,
                   rpcMutex, nextReq, req, rpcMetrics>>

\* rpcStream.Send(m) on stream u: on a stream that has ended the write returns
\* io.EOF; otherwise the message is written ("ok") or the write fails ("err"),
\* which ends the stream and cancels its context.
SendOutcomes(u) == IF rpc[u].done THEN {"eof"} ELSE {"ok", "err"}

Written(u, kind, out) ==
    [rpc EXCEPT ![u] = [@ EXCEPT
        !.first = IF out = "ok" /\ @ = "none" THEN kind ELSE @,
        !.hdr   = @ \/ (out = "ok" /\ kind = "hdr"),
        !.done  = @ \/ out = "err"]]

\* ---------------------------------------------- the receive goroutine
\* sendMinionHeaders, line 330: cli.rpcMutex.Lock().
sendMinionHeaders_lock(s) ==
    /\ Alive /\ loop[s].pc = "hdr"
    /\ rpcMutex = FreeRpc
    /\ rpcMutex' = <<"loop", s>>
    /\ loop' = [loop EXCEPT ![s].pc = "hdrSend"]
    /\ UNCHANGED <<crashed, connState, mainVars, sinkVars, rpcStream, nextRpc, rpc,
                   sup, nextReq, req, rpcMetrics>>

\* sendMinionHeaders, lines 331-334: the headers go to the stream cli.rpcStream
\* holds now (a nil interface panics); an error is only logged.
sendMinionHeaders_send(s) ==
    /\ Alive /\ loop[s].pc = "hdrSend"
    /\ IF rpcStream = NIL
       THEN /\ crashed' = "nilRpcStream"
            /\ UNCHANGED <<rpcMutex, rpc, loop>>
       ELSE /\ \E out \in SendOutcomes(rpcStream) : rpc' = Written(rpcStream, "hdr", out)
            /\ rpcMutex' = FreeRpc
            /\ loop' = [loop EXCEPT ![s].pc = "check"]
            /\ crashed' = crashed
    /\ UNCHANGED <<connState, mainVars, sinkVars, rpcStream, nextRpc,
                   sup, nextReq, req, rpcMetrics>>

\* Lines 260-262: the loop ends when the field is nil or the connection is not
\* Ready.
recvLoop_check(s) ==
    /\ Alive /\ loop[s].pc = "check"
    /\ loop' = [loop EXCEPT ![s].pc =
                  IF rpcStream = NIL \/ connState # "Ready" THEN "done" ELSE "callRecv"]
    /\ UNCHANGED <<crashed, connState, mainVars, sinkVars, rpcStream, nextRpc,
                   rpcMutex, rpc, sup, nextReq, req, rpcMetrics>>

\* Line 263: cli.rpcStream.Recv() is called on the stream the field holds now
\* (a nil interface panics) and blocks on that stream.
recvLoop_callRecv(s) ==
    /\ Alive /\ loop[s].pc = "callRecv"
    /\ IF rpcStream = NIL
       THEN /\ crashed' = "nilRpcStream"
            /\ UNCHANGED loop
       ELSE /\ loop' = [loop EXCEPT ![s] = [pc |-> "recv", target |-> rpcStream]]
            /\ crashed' = crashed
    /\ UNCHANGED <<connState, mainVars, sinkVars, rpcStream, nextRpc,
                   rpcMutex, rpc, sup, nextReq, req, rpcMetrics>>

\* api.GetRPCModule: the module registered under the id, if any.
GetRPCModule(id) == id \in RegisteredRPCModules

\* A processRequest that calls Execute itself and returns when Execute has
\* returned (here with an empty response).
processRequestInline(r, id, expired, u) ==
    [req EXCEPT ![r] = [module |-> id, expired |-> expired, stream |-> u,
                        w |-> IF GetRPCModule(id) THEN "done" ELSE "none",
                        executed |-> GetRPCModule(id),
                        execs |-> IF GetRPCModule(id) THEN 1 ELSE 0,
                        response |-> IF GetRPCModule(id) THEN "nil" ELSE "none",
                        respOn |-> NIL]]

\* A processRequest that starts a worker whatever the ModuleId.
processRequestAnyModule(r, id, expired, u) ==
    [req EXCEPT ![r] = [module |-> id, expired |-> expired, stream |-> u,
                        w |-> "exec", executed |-> FALSE, execs |-> 0, response |-> "none",
                        respOn |-> NIL]]

\* processRequest (lines 338-360) for request r read from stream u: a worker
\* goroutine is spawned when the module is registered; otherwise the request is
\* logged and dropped.  Expiration is not read.
processRequest(r, id, expired, u) ==
    [req EXCEPT ![r] = [module |-> id, expired |-> expired, stream |-> u,
                        w |-> IF GetRPCModule(id) THEN "exec" ELSE "none",
                        executed |-> FALSE, execs |-> 0, response |-> "none",
                        respOn |-> NIL]]

\* Lines 263-265: Recv returns the next request of the stream.  The server
\* sends requests only on a stream that carried the Minion header, which is
\* what subscribes the agent to the requests of its Location.
recvLoop_request(s) ==
    /\ Alive /\ loop[s].pc = "recv"
    /\ ~rpc[loop[s].target].done
    /\ rpc[loop[s].target].hdr
    /\ nextReq <= load.reqs
    /\ \E id \in ModuleIds, expired \in BOOLEAN :
         req' = processRequest(nextReq, id, expired, loop[s].target)
    /\ nextReq' = nextReq + 1
    /\ rpcMetrics' = [rpcMetrics EXCEPT !.reqReceivedSucceeded = @ + 1]
    /\ loop' = [loop EXCEPT ![s].pc = "check"]
    /\ UNCHANGED <<crashed, connState, mainVars, sinkVars, rpcStream, nextRpc,
                   rpcMutex, rpc, sup>>

\* Lines 267-269: Recv returns io.EOF, the server has ended the stream; the
\* loop ends.  (On a closed connection Recv returns a status error instead.)
recvLoop_EOF(s) ==
    /\ Alive /\ loop[s].pc = "recv"
    /\ conn = "open"
    /\ rpc' = [rpc EXCEPT ![loop[s].target].done = TRUE]
    /\ loop' = [loop EXCEPT ![s].pc = "done"]
    /\ UNCHANGED <<crashed, connState, mainVars, sinkVars, rpcStream, nextRpc,
                   rpcMutex, sup, nextReq, req, rpcMetrics>>

\* The request Recv returns together with an error: none.
RecvErrorRequest == NIL

\* Lines 270-273: Recv returns another error, the stream has ended.  Line 273
\* reads request.SystemId and request.ModuleId for the counter's labels; request
\* is what Recv returned with the error, and reading a field of nil panics.
recvLoop_error(s) ==
    /\ Alive /\ loop[s].pc = "recv"
    /\ rpc' = [rpc EXCEPT ![loop[s].target].done = TRUE]
    /\ IF RecvErrorRequest = NIL
       THEN /\ crashed' = "nilRequest"
            /\ UNCHANGED <<loop, rpcMetrics>>
       ELSE /\ rpcMetrics' = [rpcMetrics EXCEPT !.reqReceivedFailed = @ + 1]
            /\ loop' = [loop EXCEPT ![s].pc = "check"]
            /\ crashed' = crashed
    /\ UNCHANGED <<connState, mainVars, sinkVars, rpcStream, nextRpc,
                   rpcMutex, sup, nextReq, req>>

\* ------------------------------------------------- the worker goroutine
\* A worker that hands the empty response of Execute to sendResponse.
worker_ExecuteSendsEmpty(r) ==
    /\ Alive /\ req[r].w = "exec"
    /\ \E response \in {"nil", "response"} :
         /\ req' = [req EXCEPT ![r] =
                      [@ EXCEPT !.w = IF rpcStream # NIL /\ connState = "Ready"
                                      THEN "lock" ELSE "done",
                                !.executed = TRUE, !.execs = @ + 1,
                                !.response = response]]
         /\ rpcMetrics' = IF response = "nil"
                          THEN [rpcMetrics EXCEPT !.reqProcessedFailed = @ + 1]
                          ELSE IF rpcStream # NIL /\ connState = "Ready"
                          THEN [rpcMetrics EXCEPT !.reqProcessedSucceeded = @ + 1]
                          ELSE [rpcMetrics EXCEPT !.reqProcessedSucceeded = @ + 1,
                                                  !.resSentFailed = @ + 1]
    /\ UNCHANGED <<crashed, connState, mainVars, sinkVars, rpcStream, nextRpc,
                   rpcMutex, rpc, loop, sup, nextReq>>

\* Lines 341-350 and 364, 375-376: module.Execute returns a response or nil.  On
\* nil the failure is counted and the worker ends.  Otherwise sendResponse
\* starts with the unlocked read of cli.rpcStream and of the connection state.
worker_Execute(r) ==
    /\ Alive /\ req[r].w = "exec"
    /\ \E response \in {"nil", "response"} :
         IF response = "nil"
         THEN /\ req' = [req EXCEPT ![r] = [@ EXCEPT !.w = "done", !.executed = TRUE,
                                                    !.execs = @ + 1, !.response = response]]
              /\ rpcMetrics' = [rpcMetrics EXCEPT !.reqProcessedFailed = @ + 1]
         ELSE IF rpcStream # NIL /\ connState = "Ready"
         THEN /\ req' = [req EXCEPT ![r] = [@ EXCEPT !.w = "lock", !.executed = TRUE,
                                                    !.execs = @ + 1, !.response = response]]
              /\ rpcMetrics' = [rpcMetrics EXCEPT !.reqProcessedSucceeded = @ + 1]
         ELSE /\ req' = [req EXCEPT ![r] = [@ EXCEPT !.w = "done", !.executed = TRUE,
                                                    !.execs = @ + 1, !.response = response]]
              /\ rpcMetrics' = [rpcMetrics EXCEPT !.reqProcessedSucceeded = @ + 1,
                                                  !.resSentFailed = @ + 1]
    /\ UNCHANGED <<crashed, connState, mainVars, sinkVars, rpcStream, nextRpc,
                   rpcMutex, rpc, loop, sup, nextReq>>

\* sendResponse, line 365: cli.rpcMutex.Lock().
sendResponse_lock(r) ==
    /\ Alive /\ req[r].w = "lock"
    /\ rpcMutex = FreeRpc
    /\ rpcMutex' = <<"worker", r>>
    /\ req' = [req EXCEPT ![r].w = "send"]
    /\ UNCHANGED <<crashed, connState, mainVars, sinkVars, rpcStream, nextRpc,
                   rpc, loop, sup, nextReq, rpcMetrics>>

\* sendResponse, lines 366-373: the response goes to the stream cli.rpcStream
\* holds now (a nil interface panics), Unlock, then the counter for the outcome.
sendResponse_send(r) ==
    /\ Alive /\ req[r].w = "send"
    /\ IF rpcStream = NIL
       THEN /\ crashed' = "nilRpcStream"
            /\ UNCHANGED <<rpcMutex, rpc, req, rpcMetrics>>
       ELSE /\ \E out \in SendOutcomes(rpcStream) :
                 /\ rpc' = Written(rpcStream, "resp", out)
                 /\ req' = [req EXCEPT ![r] =
                              [@ EXCEPT !.w = "done",
                                        !.respOn = IF out = "ok" THEN rpcStream ELSE NIL]]
                 /\ rpcMetrics' = IF out = "ok"
                                  THEN [rpcMetrics EXCEPT !.resSentSucceeded = @ + 1]
                                  ELSE [rpcMetrics EXCEPT !.resSentFailed = @ + 1]
            /\ rpcMutex' = FreeRpc
            /\ crashed' = crashed
    /\ UNCHANGED <<connState, mainVars, sinkVars, rpcStream, nextRpc,
                   loop, sup, nextReq>>

\* --------------------------------------------- the supervisor goroutine
\* Line 281: <-cli.rpcStream.Context().Done() returns.
supervisor_done(s) ==
    /\ Alive /\ sup[s] = "wait"
    /\ rpc[s].done
    /\ sup' = [sup EXCEPT ![s] = "init"]
    /\ UNCHANGED <<crashed, connState, mainVars, sinkVars, rpcStream, nextRpc,
                   rpcMutex, rpc, loop, nextReq, req, rpcMetrics>>

\* Lines 283-286: one attempt; the supervisor returns when it succeeded.
supervisor_initRPCStream(s) ==
    /\ Alive /\ sup[s] = "init"
    /\ rpcMutex = FreeRpc
    /\ \E ok \in BOOLEAN : initRPCStream(ok, s)
    /\ UNCHANGED <<crashed, connState, mainVars, sinkVars, rpcMutex,
                   nextReq, req, rpcMetrics>>

\* Line 287: time.Sleep(1 * time.Second), then the next attempt.
supervisor_sleep(s) ==
    /\ Alive /\ sup[s] = "sleep"
    /\ sup' = [sup EXCEPT ![s] = "init"]
    /\ UNCHANGED <<crashed, connState, mainVars, sinkVars, rpcStream, nextRpc,
                   rpcMutex, rpc, loop, nextReq, req, rpcMetrics>>

\* ------------------------------------------- rootHandler, GrpcClient.Stop
\* rootHandler, lines 142-144: the interrupt signal arrives while the handler
\* waits on the stop channel after Start returned nil.
rootHandler_signal ==
    /\ Alive /\ mainPc = "running"
    /\ load.interrupt
    /\ mainPc' = "stopModules"
    /\ UNCHANGED <<cfgVars, load, startErr, crashed, conn, connState, modStarted, modDisabled,
                   modStopped, traceCloser, sinkVars, rpcVars>>

\* SinkRegistry.StopModules: the Stop of every module is invoked.
StopModules == Modules

\* Line 175.
Stop_StopModules ==
    /\ Alive /\ mainPc = "stopModules"
    /\ modStopped' = StopModules
    /\ mainPc' = "closeRpc"
    /\ UNCHANGED <<cfgVars, load, startErr, crashed, conn, connState, modStarted, modDisabled,
                   traceCloser, sinkVars, rpcVars>>

\* Lines 177-179: the unlocked read of cli.rpcStream; CloseSend on the stream
\* the field holds now, if any.
Stop_closeRpcStream ==
    /\ Alive /\ mainPc = "closeRpc"
    /\ rpc' = [s \in RpcIds |->
                 IF s = rpcStream THEN [rpc[s] EXCEPT !.closeSend = TRUE] ELSE rpc[s]]
    /\ mainPc' = "closeSink"
    /\ UNCHANGED <<cfgVars, load, startErr, crashed, conn, connState, modStarted, modDisabled,
                   modStopped, traceCloser, sinkVars,
                   rpcStream, nextRpc, rpcMutex, loop, sup, nextReq, req, rpcMetrics>>

\* Lines 180-182: the same for cli.sinkStream.
Stop_closeSinkStream ==
    /\ Alive /\ mainPc = "closeSink"
    /\ sinkCloseSend' = IF sinkStream # NIL THEN sinkCloseSend \cup {sinkStream}
                                            ELSE sinkCloseSend
    /\ mainPc' = "closeConn"
    /\ UNCHANGED <<cfgVars, load, startErr, crashed, conn, connState, modStarted, modDisabled,
                   modStopped, traceCloser,
                   sinkStream, nextSink, sinkMutex, snd, sinkMetrics, rpcVars>>

\* Lines 183-185: cli.conn.Close(), when there is a connection.  Every stream
\* of the connection ends (its context is cancelled) and GetState reports
\* Shutdown from then on.
Stop_closeConn ==
    /\ Alive /\ mainPc = "closeConn"
    /\ IF conn # "nil"
       THEN /\ conn' = "closed"
            /\ connState' = "Shutdown"
            /\ rpc' = [s \in RpcIds |->
                         IF s < nextRpc THEN [rpc[s] EXCEPT !.done = TRUE] ELSE rpc[s]]
       ELSE UNCHANGED <<conn, connState, rpc>>
    /\ mainPc' = "closeTrace"
    /\ UNCHANGED <<cfgVars, load, startErr, crashed, modStarted, modDisabled,
                   modStopped, traceCloser, sinkVars,
                   rpcStream, nextRpc, rpcMutex, loop, sup, nextReq, req, rpcMetrics>>

\* Lines 186-189: cli.traceCloser.Close(), when there is a closer; Stop returns.
Stop_closeTrace ==
    /\ Alive /\ mainPc = "closeTrace"
    /\ traceCloser' = IF traceCloser # "nil" THEN "closed" ELSE traceCloser
    /\ mainPc' = "stopped"
    /\ UNCHANGED <<cfgVars, load, startErr, crashed, conn, connState, modStarted, modDisabled,
                   modStopped, sinkVars, rpcVars>>

\* rootHandler, line 146: the handler returns and the process exits; every
\* goroutine ends with it.
rootHandler_return ==
    /\ Alive /\ mainPc = "stopped"
    /\ mainPc' = "exited"
    /\ UNCHANGED <<cfgVars, load, startErr, crashed, conn, connState, modStarted, modDisabled,
                   modStopped, traceCloser, sinkVars, rpcVars>>

\* ------------------------------------------------- sink.NxosGrpcModule
\* A Start that opens the server whatever the port of the listener.
NxosGrpcModule_StartAnyPort ==
    /\ Alive /\ mainPc = "setup" /\ nxos.ret = "none"
    /\ LET listener == GetListenerByParser(config, NxosParser)
       IN  IF listener = <<>>
           THEN nxos' = [nxos EXCEPT !.ret = "nil"]
           ELSE \E ok \in BOOLEAN :
                  nxos' = IF ok
                          THEN [nxos EXCEPT !.ret = "nil", !.server = "created",
                                            !.port = listener[1].Port,
                                            !.socket = "open", !.serve = "running"]
                          ELSE [nxos EXCEPT !.ret = "err", !.server = "created",
                                            !.port = listener[1].Port]
    /\ UNCHANGED <<config, listeners, validErr, lookup, codec, load, mainPc, startErr,
                   crashed, conn, connState, modStarted, modDisabled, modStopped,
                   traceCloser, sinkVars, rpcVars>>

\* NxosGrpcModule.Start (lines 29-54), called by the registry with the
\* configuration rootHandler built.  Without a listener for the parser, or with
\* port 0, the module is disabled and Start returns nil (lines 31-34).
\* Otherwise the server is created and registered; net.Listen either fails,
\* and Start returns the error, or opens the socket, and Start spawns the
\* goroutine that serves it and returns nil.
NxosGrpcModule_Start ==
    /\ Alive /\ mainPc = "setup" /\ nxos.ret = "none"
    /\ LET listener == GetListenerByParser(config, NxosParser)
       IN  IF listener = <<>> \/ listener[1].Port = 0
           THEN nxos' = [nxos EXCEPT !.ret = "nil"]
           ELSE \E ok \in BOOLEAN :
                  nxos' = IF ok
                          THEN [nxos EXCEPT !.ret = "nil", !.server = "created",
                                            !.port = listener[1].Port,
                                            !.socket = "open", !.serve = "running"]
                          ELSE [nxos EXCEPT !.ret = "err", !.server = "created",
                                            !.port = listener[1].Port]
    /\ UNCHANGED <<config, listeners, validErr, lookup, codec, load, mainPc, startErr,
                   crashed, conn, connState, modStarted, modDisabled, modStopped,
                   traceCloser, sinkVars, rpcVars>>

\* NxosGrpcModule.Stop (lines 56-62), called after Start returned: when there
\* is a server, server.Stop() closes the socket and every client connection,
\* so that Serve returns and the streams of the sessions end; it does not wait
\* for the handlers.  Without a server nothing is done.
NxosGrpcModule_Stop ==
    /\ Alive /\ nxos.ret # "none" /\ nxos.stops < MaxStops
    /\ nxos' = IF nxos.server = "nil"
               THEN [nxos EXCEPT !.stops = @ + 1]
               ELSE [nxos EXCEPT
                       !.stops = @ + 1,
                       !.server = "stopped",
                       !.socket = IF @ = "open" THEN "closed" ELSE @,
                       !.serve = IF @ = "running" THEN "done" ELSE @,
                       !.sessions = [k \in SessionIds |->
                           IF @[k].pc = "none" THEN @[k]
                           ELSE [@[k] EXCEPT !.closed = TRUE]]]
    /\ UNCHANGED <<config, listeners, validErr, lookup, codec, load, mainPc, startErr,
                   crashed, conn, connState, modStarted, modDisabled, modStopped,
                   traceCloser, sinkVars, rpcVars>>

\* A device dials out: the serving goroutine accepts the connection and the
\* server runs MdtDialout (line 65) for the stream in a task of its own, which
\* enters the loop of line 70.
MdtDialout_accept(k) ==
    /\ Alive /\ nxos.serve = "running" /\ nxos.sessions[k].pc = "none"
    /\ nxos' = [nxos EXCEPT !.sessions[k].pc = "recv"]
    /\ UNCHANGED <<config, listeners, validErr, lookup, codec, load, mainPc, startErr,
                   crashed, conn, connState, modStarted, modDisabled, modStopped,
                   traceCloser, sinkVars, rpcVars>>

\* The device ends its session: it closes the stream or the connection breaks.
MdtDialout_sessionEnds(k) ==
    /\ Alive /\ nxos.sessions[k].pc # "none" /\ ~nxos.sessions[k].closed
    /\ nxos' = [nxos EXCEPT !.sessions[k].closed = TRUE]
    /\ UNCHANGED <<config, listeners, validErr, lookup, codec, load, mainPc, startErr,
                   crashed, conn, connState, modStarted, modDisabled, modStopped,
                   traceCloser, sinkVars, rpcVars>>

\* Lines 71 and 80-87: Recv returns a message; one that has only errors is
\* logged, one with data is wrapped and handed to the broker; the loop goes to
\* its next iteration.
MdtDialout_message(k) ==
    /\ Alive /\ nxos.sessions[k].pc = "recv" /\ ~nxos.sessions[k].closed
    /\ nxos.sessions[k].got < MaxTelemetry
    /\ \E data \in BOOLEAN :
         nxos' = [nxos EXCEPT !.sessions[k] =
                    [@ EXCEPT !.got = @ + 1,
                              !.forwarded = IF data THEN @ + 1 ELSE @]]
    /\ UNCHANGED <<config, listeners, validErr, lookup, codec, load, mainPc, startErr,
                   crashed, conn, connState, modStarted, modDisabled, modStopped,
                   traceCloser, sinkVars, rpcVars>>

\* Lines 71-77: Recv on a stream that has ended returns io.EOF or an error,
\* which is logged.
MdtDialout_RecvError(k) ==
    /\ Alive /\ nxos.sessions[k].pc = "recv" /\ nxos.sessions[k].closed
    /\ nxos' = [nxos EXCEPT !.sessions[k].pc = "failed"]
    /\ UNCHANGED <<config, listeners, validErr, lookup, codec, load, mainPc, startErr,
                   crashed, conn, connState, modStarted, modDisabled, modStopped,
                   traceCloser, sinkVars, rpcVars>>

\* Line 78: continue, the next iteration of the loop of line 70.
MdtDialout_continue(k) ==
    /\ Alive /\ nxos.sessions[k].pc = "failed"
    /\ nxos' = [nxos EXCEPT !.sessions[k].pc = "recv"]
    /\ UNCHANGED <<config, listeners, validErr, lookup, codec, load, mainPc, startErr,
                   crashed, conn, connState, modStarted, modDisabled, modStopped,
                   traceCloser, sinkVars, rpcVars>>

\* --------------------------------------------------- chunk reassembly
\* The receiver takes the chunk c off the wire.  A message of one chunk
\* bypasses the table.  Otherwise the chunk is put at its index in the entry of
\* its message id (created on the first chunk); when the chunk's current-count
\* is total-chunks the payload of the entry is handed to the application and
\* the entry is deleted.
Reassemble(c) ==
    /\ c \in codec.wire
    /\ IF c.total = 1
       THEN codec' = [codec EXCEPT !.wire = @ \ {c}, !.handed = Append(@, c.data)]
       ELSE LET old == IF c.id \in DOMAIN codec.table THEN codec.table[c.id]
                       ELSE [i \in 0..(c.total - 1) |-> <<>>]
                entry == [old EXCEPT ![c.index] = c.data]
            IN  IF c.current = c.total
                THEN codec' = [codec EXCEPT
                         !.wire = @ \ {c},
                         !.handed = Append(@, Assemble(entry, 0, c.total)),
                         !.table = [k \in (DOMAIN codec.table) \ {c.id} |-> codec.table[k]]]
                ELSE codec' = [codec EXCEPT
                         !.wire = @ \ {c},
                         !.table = [k \in (DOMAIN codec.table) \cup {c.id} |->
                                      IF k = c.id THEN entry ELSE codec.table[k]]]
    /\ UNCHANGED <<config, listeners, validErr, lookup, nxos, load, mainPc, startErr, crashed,
                   conn, connState, modStarted, modDisabled, modStopped, traceCloser,
                   sinkVars, rpcVars>>

Next ==
    \/ ConnDown
    \/ ConnUp
    \/ rootHandler_IsValid
    \/ rootHandler_ParseListeners
    \/ rootHandler_GetBroker
    \/ Start_setup
    \/ Start_dial
    \/ Start_initSinkStream
    \/ Start_StartModules
    \/ \E m \in Modules : Send_check(m)
    \/ \E m \in Modules : Send_initSinkStream(m)
    \/ \E m \in Modules : Send_lock(m)
    \/ \E m \in Modules : Send_write(m)
    \/ Start_initRPCStream
    \/ \E s \in RpcIds : sendMinionHeaders_lock(s)
    \/ \E s \in RpcIds : sendMinionHeaders_send(s)
    \/ \E s \in RpcIds : recvLoop_check(s)
    \/ \E s \in RpcIds : recvLoop_callRecv(s)
    \/ \E s \in RpcIds : recvLoop_request(s)
    \/ \E s \in RpcIds : recvLoop_EOF(s)
    \/ \E s \in RpcIds : recvLoop_error(s)
    \/ \E r \in ReqIds : worker_Execute(r)
    \/ \E r \in ReqIds : sendResponse_lock(r)
    \/ \E r \in ReqIds : sendResponse_send(r)
    \/ \E s \in RpcIds : supervisor_done(s)
    \/ \E s \in RpcIds : supervisor_initRPCStream(s)
    \/ \E s \in RpcIds : supervisor_sleep(s)
    \/ rootHandler_signal
    \/ Stop_StopModules
    \/ Stop_closeRpcStream
    \/ Stop_closeSinkStream
    \/ Stop_closeConn
    \/ Stop_closeTrace
    \/ rootHandler_return

Spec == Init /\ [][Next]_vars

\* The configuration on its own: rootHandler up to the call of the broker's
\* Start, for every configuration and every listener flag, and the lookups the
\* modules then make in the configuration.
ConfigInit ==
    /\ InitBroker
    /\ load = [sends |-> 0, reqs |-> 0, streams |-> 1,
               interrupt |-> FALSE, tracing |-> TRUE, dial |-> "ready",
               modFail |-> {{}}]
    /\ config \in Configs
    /\ listeners \in FlagLists
    /\ codec = NoCodec

ConfigNext ==
    \/ rootHandler_IsValid
    \/ rootHandler_ParseListeners
    \/ rootHandler_GetBroker
    \/ \E parser \in ParserNames : module_GetListenerByParser(parser)

ConfigSpec == ConfigInit /\ [][ConfigNext]_vars

\* The wire codec on its own: one chunked message whose chunks arrive in any
\* order.
CodecInit ==
    /\ InitBroker
    /\ load = [sends |-> 0, reqs |-> 0, streams |-> 1,
               interrupt |-> FALSE, tracing |-> TRUE, dial |-> "ready",
               modFail |-> {{}}]
    /\ config \in {c \in MainConfigs : IsValid(c) = "nil" /\ GetBroker(c)}
    /\ listeners = MainListeners
    /\ codec \in Codecs

CodecNext == \E c \in codec.wire : Reassemble(c)

CodecSpec == CodecInit /\ [][CodecNext]_vars

\* The NX-OS module on its own: rootHandler builds the configuration from the
\* file and the listener flag, the registry starts the module, devices dial
\* out, and the registry stops the module, once or again.
NxosInit ==
    /\ InitBroker
    /\ load = [sends |-> 0, reqs |-> 0, streams |-> 1,
               interrupt |-> FALSE, tracing |-> TRUE, dial |-> "ready",
               modFail |-> {{}}]
    /\ config \in {c \in Configs : IsValid(c) = "nil" /\ GetBroker(c)}
    /\ listeners \in NxosFlagLists
    /\ codec = NoCodec

NxosNext ==
    \/ rootHandler_IsValid
    \/ rootHandler_ParseListeners
    \/ rootHandler_GetBroker
    \/ NxosGrpcModule_Start
    \/ NxosGrpcModule_Stop
    \/ \E k \in SessionIds : MdtDialout_accept(k)
    \/ \E k \in SessionIds : MdtDialout_sessionEnds(k)
    \/ \E k \in SessionIds : MdtDialout_message(k)
    \/ \E k \in SessionIds : MdtDialout_RecvError(k)
    \/ \E k \in SessionIds : MdtDialout_continue(k)

NxosSpec == NxosInit /\ [][NxosNext]_vars

\* The handler tasks are scheduled fairly; nothing is assumed of the devices
\* or of when the registry calls Stop.
NxosLiveSpec ==
    /\ NxosInit /\ [][NxosNext]_vars
    /\ WF_vars(rootHandler_IsValid \/ rootHandler_ParseListeners \/ rootHandler_GetBroker)
    /\ WF_vars(NxosGrpcModule_Start)
    /\ \A k \in SessionIds :
         /\ WF_vars(MdtDialout_RecvError(k))
         /\ WF_vars(MdtDialout_continue(k))

\* The goroutines are scheduled fairly: a step that stays possible is taken.
\* The server eventually accepts a stream: a supervisor that keeps retrying
\* eventually has an attempt that succeeds, while the workload leaves one.
\* Nothing is assumed of the transport (ConnDown, ConnUp), of what Recv returns,
\* of the telemetry that makes a module call Send or of the operator's
\* interrupt; once interrupted, rootHandler runs Stop to its end and returns.
Fairness ==
    /\ WF_vars(rootHandler_IsValid \/ rootHandler_ParseListeners \/ rootHandler_GetBroker)
    /\ WF_vars(Start_setup \/ Start_dial \/ Start_initSinkStream
               \/ Start_StartModules \/ Start_initRPCStream)
    /\ WF_vars(Stop_StopModules \/ Stop_closeRpcStream \/ Stop_closeSinkStream
               \/ Stop_closeConn \/ Stop_closeTrace \/ rootHandler_return)
    /\ \A s \in RpcIds :
         /\ WF_vars(sendMinionHeaders_lock(s))
         /\ WF_vars(sendMinionHeaders_send(s))
         /\ WF_vars(recvLoop_check(s))
         /\ WF_vars(recvLoop_callRecv(s))
         /\ WF_vars(supervisor_done(s))
         /\ WF_vars(supervisor_sleep(s))
         /\ WF_vars(supervisor_initRPCStream(s))
         /\ SF_vars(supervisor_initRPCStream(s) /\ rpcStream' # NIL)
    /\ \A r \in ReqIds :
         /\ WF_vars(worker_Execute(r))
         /\ WF_vars(sendResponse_lock(r))
         /\ WF_vars(sendResponse_send(r))
    /\ \A m \in Modules :
         /\ WF_vars(Send_initSinkStream(m))
         /\ WF_vars(Send_lock(m))
         /\ WF_vars(Send_write(m))

LiveSpec == Init /\ [][Next]_vars /\ Fairness

\* ------------------------------------------------------------------ claims

\* C1: on every RPC stream the broker opens, the Minion header is the first
\* message written: no response is written to a stream before its header.
C1_HeaderFirst == \A s \in RpcIds : rpc[s].first # "resp"

\* C2: a request whose Expiration had passed when it was received is never
\* executed and never answered.
C2_ExpiredDropped ==
    \A r \in ReqIds : req[r].expired => ~req[r].executed /\ req[r].respOn = NIL

\* Stop has been called.
StopCalled == mainPc \in {"stopModules", "closeRpc", "closeSink", "closeConn",
                          "closeTrace", "stopped", "exited"}

\* The stream in cli.rpcStream has ended while the broker is started.
RpcTerminated == mainPc = "running" /\ rpcStream # NIL /\ rpc[rpcStream].done

\* A stream is open, the header was written on it, and a receive goroutine is
\* blocked in Recv on it.
RpcRecovered ==
    /\ rpcStream # NIL
    /\ rpc[rpcStream].hdr
    /\ \E s \in RpcIds : loop[s].pc = "recv" /\ loop[s].target = rpcStream

\* C3 (checked under LiveSpec): whenever the RPC stream terminates while the broker is started, the
\* supervisor retries until the server accepts a stream, and eventually a new
\* stream is open, carries the header and is read by a receive loop (as long
\* as the workload has a stream left for the server to accept and Stop is not
\* called).
C3_StreamRecovers == RpcTerminated ~> (RpcRecovered \/ nextRpc > load.streams \/ StopCalled)

\* C4: a Send call makes at most one reinitialization attempt, only when the
\* Sink stream is absent or the connection not Ready; a failed attempt makes
\* Send return an error without writing; after a successful attempt the write
\* is made on the stream the call opened (read here as: on that stream or on
\* one opened after it, never on none).
C4_SendReinit ==
    \A m \in Modules :
        /\ snd[m].attempts <= 1
        /\ snd[m].attempts = 1 => snd[m].needed
        /\ (snd[m].attempts = 1 /\ snd[m].opened = NIL)
              => snd[m].ret = "err" /\ snd[m].wrote = NIL /\ snd[m].pc = "idle"
        /\ (snd[m].opened # NIL /\ snd[m].pc = "write")
              => crashed = "no" /\ sinkStream >= snd[m].opened
        /\ (snd[m].opened # NIL /\ snd[m].pc = "idle") => snd[m].wrote >= snd[m].opened

\* What the steps of Start have done so far, and what a failed step left undone.
C5_StartOrderState ==
    /\ nextSink > 1 => conn # "nil"
    /\ (modStarted \cup modDisabled) # {} => nextSink > 1
    /\ nextRpc > 1 => (modStarted \cup modDisabled) = Modules
    /\ mainPc = "fatal" <=> startErr # "none"
    /\ startErr \in {"setup", "dial"} => conn = "nil" /\ nextSink = 1
    /\ startErr \in {"setup", "dial", "sink"}
          => sinkStream = NIL /\ (modStarted \cup modDisabled) = {} /\ nextRpc = 1
    /\ startErr \in {"modules", "rpc"}
          => rpcStream = NIL /\ nextRpc = 1 /\ \A s \in RpcIds : loop[s].pc = "none"

\* The state in which each step of Start is taken.
C5_StartOrderStep ==
    /\ (conn = "nil" /\ conn' # "nil")
          => sinkStream = NIL /\ modStarted = {} /\ rpcStream = NIL
    /\ (modStarted' # modStarted \/ modDisabled' # modDisabled)
          => sinkStream # NIL /\ sinkStream' # NIL /\ nextRpc = 1
    /\ (nextRpc = 1 /\ nextRpc' > 1) => mainPc = "rpc" /\ mainPc' = "running"

\* C5: Start dials, opens the Sink stream, starts the Sink modules and opens
\* the RPC stream in this order; a module is started only while the Sink
\* stream exists, the RPC stream is opened only after every module was
\* started, and after a failed step no later step has run.
C5_StartOrder == []C5_StartOrderState /\ [][C5_StartOrderStep]_vars

\* Start ran all four steps.
C5_Witness == mainPc = "running" /\ modStarted = Modules /\ rpcStream # NIL

C7_RecvErrorStep ==
    \A s \in RpcIds : recvLoop_error(s) =>
        /\ crashed' = "no"
        /\ rpcMetrics'.reqReceivedFailed = rpcMetrics.reqReceivedFailed + 1
        /\ loop'[s].pc = "check"
        /\ UNCHANGED <<conn, rpcStream, sinkStream, modStarted>>

\* C7: a Recv that fails with an error other than io.EOF only counts the
\* failure: the broker does not crash, the loop continues, and connection,
\* streams and modules are as before.
C7_RecvErrorTolerated == [][C7_RecvErrorStep]_vars

\* C8: every completed Send incremented exactly one counter of its module:
\* succeeded when it returned nil, failed when it returned an error.
C8_SendCounted ==
    \A m \in Modules :
        /\ sinkMetrics[m].succeeded = snd[m].retNil
        /\ sinkMetrics[m].failed = snd[m].retErr

\* The tasks inside a write on the Sink stream / on the RPC stream.
SinkWriters == {m \in Modules : snd[m].pc = "write"}
RpcWriters ==
    {<<"loop", s>> : s \in {x \in RpcIds : loop[x].pc = "hdrSend"}}
        \cup {<<"worker", r>> : r \in {x \in ReqIds : req[x].w = "send"}}

\* Whoever is inside a write holds the mutex of the stream, alone.
C9_OneWriter ==
    /\ Cardinality(SinkWriters) <= 1
    /\ Cardinality(RpcWriters) <= 1
    /\ \A m \in SinkWriters : sinkMutex = m
    /\ \A w \in RpcWriters : rpcMutex = w

\* No step assigns a stream field while a write on that stream is in progress.
C9_NoReplaceStep ==
    /\ SinkWriters # {} => sinkStream' = sinkStream
    /\ RpcWriters # {} => rpcStream' = rpcStream

\* C9: at most one task is inside a write on the Sink stream and at most one
\* inside a write on the RPC stream, and neither stream is replaced while a
\* write on it is in progress.
C9_WritesExclusive == []C9_OneWriter /\ [][C9_NoReplaceStep]_vars

\* One worker writes on the Sink stream while another waits for the mutex,
\* and the header is being written on the RPC stream.
C9_Witness ==
    /\ \E m1, m2 \in Modules : snd[m1].pc = "write" /\ snd[m2].pc = "lock"
    /\ \E s \in RpcIds : loop[s].pc = "hdrSend"

\* A request for an unregistered module has no worker, execution or response.
C10_UnknownState ==
    \A r \in ReqIds :
        (req[r].module # "none" /\ req[r].module \notin RegisteredRPCModules)
            => req[r].w = "none" /\ ~req[r].executed /\ req[r].respOn = NIL

\* Receiving such a request leaves the loop running.
C10_UnknownStep ==
    \A s \in RpcIds :
        (recvLoop_request(s) /\ req'[nextReq].module \notin RegisteredRPCModules)
            => loop'[s].pc = "check" /\ crashed' = "no"

\* C10: a request whose ModuleId is not registered gets no worker, is never
\* executed and never answered, and the receive loop goes on to its next
\* iteration.
C10_UnknownDropped == []C10_UnknownState /\ [][C10_UnknownStep]_vars

\* A request for an unregistered module was dropped and a later request was
\* received, executed and answered.
C10_Witness ==
    \E r1, r2 \in ReqIds :
        /\ r1 < r2
        /\ req[r1].module = "Unknown"
        /\ req[r2].module = "Echo" /\ req[r2].respOn # NIL

\* A request whose Execute returned nil: one call, the worker ended, no response.
C11_EmptyState ==
    \A r \in ReqIds :
        req[r].response = "nil"
            => req[r].execs = 1 /\ req[r].w = "done" /\ req[r].respOn = NIL

\* The step in which Execute returns nil counts one processing failure only and
\* writes nothing.
C11_EmptyStep ==
    \A r \in ReqIds :
        (worker_Execute(r) /\ req'[r].response = "nil")
            => /\ rpcMetrics' = [rpcMetrics EXCEPT !.reqProcessedFailed = @ + 1]
               /\ rpc' = rpc /\ rpcMutex' = rpcMutex
               /\ req'[r].w = "done"

\* C11: when Execute returns a nil response nothing is written to the RPC
\* stream for the request, rpc_req_processed_failed is incremented exactly once,
\* the other counters are unchanged, and Execute is not called again for it.
C11_EmptyResponse == []C11_EmptyState /\ [][C11_EmptyStep]_vars

\* A request got an empty response and a later one was answered.
C11_Witness ==
    \E r1, r2 \in ReqIds :
        /\ req[r1].response = "nil" /\ rpcMetrics.reqProcessedFailed = 1
        /\ req[r2].response = "response" /\ req[r2].respOn # NIL

\* The steps of Stop, each in the state the earlier steps leave.
C12_StopOrderStep ==
    /\ modStopped' # modStopped => conn = "open" /\ traceCloser # "closed"
    /\ (Stop_closeRpcStream \/ Stop_closeSinkStream)
          => modStarted \subseteq modStopped /\ conn = "open"
    /\ conn' # conn /\ conn' = "closed"
          => /\ modStarted \subseteq modStopped
             /\ rpcStream # NIL => rpc[rpcStream].closeSend
             /\ sinkStream # NIL => sinkStream \in sinkCloseSend
             /\ traceCloser # "closed"
    /\ traceCloser' # traceCloser /\ traceCloser' = "closed" => conn = "closed"

\* C12: Stop stops all modules, then half-closes the RPC and Sink streams,
\* then closes the connection, then closes the trace exporter; the connection
\* is never closed while a module is running or while a stream the broker holds
\* was not half-closed; an absent stream or closer is skipped and Stop returns.
C12_StopOrder ==
    /\ [](mainPc \in {"stopped", "exited"}
            => conn = "closed" /\ traceCloser # "open" /\ modStarted \subseteq modStopped)
    /\ [][C12_StopOrderStep]_vars

\* After Stop was called no stream is opened and no supervisor attempts a
\* stream initialization.
C13_QuietStep ==
    StopCalled =>
        /\ nextRpc' = nextRpc /\ nextSink' = nextSink
        /\ \A s \in RpcIds : ~supervisor_initRPCStream(s)

\* C13: after Stop has been called no broker task opens a new stream or goes
\* on retrying the stream initialization (the tasks then end with the process
\* when rootHandler returns).
C13_QuietAfterStop == [][C13_QuietStep]_vars

\* C14 (checked under LiveSpec): Start always terminates: it returns nil, or
\* it returns an error and the process exits fatally; with a server that is
\* never reachable the dial gives up after the startup timeout.
C14_StartTerminates == <>(mainPc \in {"running", "fatal"} \/ StopCalled \/ crashed # "no")

\* The fields of a flag entry are separated by commas: three fields or more
\* are two commas or more.
WellFormedEntry(e) == Cardinality({i \in 1..Len(e) : e[i] = ","}) >= 2

\* The listener l is what the entry e spells: e is l.Name, a comma, the digits
\* of l.Port, a comma and l.Parser.
SpelledBy(l, e) ==
    LET port == SubSeq(e, Len(l.Name) + 2, Len(e) - Len(l.Parser) - 1)
    IN  /\ e = l.Name \o <<",">> \o port \o <<",">> \o l.Parser
        /\ \A i \in 1..Len(l.Name) : l.Name[i] # ","
        /\ \A i \in 1..Len(port) : port[i] \in Digits
        /\ l.Port = Atoi(port)

\* What ParseListeners does in rootHandler.
C15_ParseStep ==
    rootHandler_ParseListeners =>
        LET old == config.Listeners
            new == config'.Listeners
            wf  == SelectSeq(listeners, WellFormedEntry)
        IN  /\ Len(new) = Len(old) + Len(wf)
            /\ SubSeq(new, 1, Len(old)) = old
            /\ \A i \in 1..Len(wf) : SpelledBy(new[Len(old) + i], wf[i])
            /\ mainPc' = "broker" /\ startErr' = "none"

C16_IsValidStep ==
    rootHandler_IsValid =>
        /\ config' = config
        /\ validErr' = "nil"
              <=> (config.ID # "" /\ config.Location # "" /\ config.BrokerURL # "")
        /\ config.ID = "" => validErr' = "Minion ID required"
        /\ (config.ID # "" /\ config.Location = "") => validErr' = "Location required"
        /\ (config.ID # "" /\ config.Location # "" /\ config.BrokerURL = "")
              => validErr' = "Broker URL required"

\* C16: IsValid returns an error exactly when ID, Location or BrokerURL is
\* empty, the error of the first empty one in this order, and it does not
\* modify the configuration.
C16_IsValid == [][C16_IsValidStep]_vars

\* ID is given, Location and BrokerURL are empty: Location is reported.
C16_Witness ==
    /\ validErr = "Location required"
    /\ config.ID # "" /\ config.BrokerURL = ""

\* The broker's Start has been invoked.
StartCalled == mainPc \in {"setup", "dial", "sink", "modules", "rpc", "running"}
                  \/ StopCalled \/ startErr \in {"setup", "dial", "sink", "modules", "rpc"}

\* Start is invoked after the checks passed, and a fatal exit before Start
\* leaves no transport; Stop is invoked after Start returned nil.
C17_HandlerState ==
    /\ StartCalled => validErr = "nil" /\ config.BrokerType \in KnownBrokerTypes
    /\ (validErr \notin {"unchecked", "nil"} \/ startErr \in {"config", "listeners", "broker"})
          => /\ ~StartCalled /\ (validErr = "unchecked" \/ mainPc = "fatal")
             /\ conn = "nil" /\ sinkStream = NIL /\ rpcStream = NIL
             /\ nextSink = 1 /\ nextRpc = 1
    /\ StopCalled => load.interrupt /\ startErr = "none" /\ nextRpc > 1

\* The steps into Start and into Stop.
C17_HandlerStep ==
    /\ (~StartCalled /\ StartCalled') => mainPc = "broker" /\ validErr = "nil"
    /\ (~StopCalled /\ StopCalled') => mainPc = "running" /\ load.interrupt

\* C17: the broker's Start is invoked only after the configuration passed
\* IsValid and BrokerType resolved to a broker implementation (otherwise the
\* process exits fatally with no transport opened), and Stop is invoked only
\* after Start succeeded and an interrupt was received.
C17_HandlerOrder == []C17_HandlerState /\ [][C17_HandlerStep]_vars

\* The handler ran Start and, interrupted, Stop.
C17_Witness == mainPc = "stopped" /\ validErr = "nil" /\ conn = "closed"

\* The string g is the final dotted segment of the string p.
FinalSegment(p, g) ==
    /\ \A i \in 1..Len(g) : g[i] # "."
    /\ Len(g) <= Len(p)
    /\ SubSeq(p, Len(p) - Len(g) + 1, Len(p)) = g
    /\ Len(g) < Len(p) => p[Len(p) - Len(g)] = "."

\* C18: GetParser returns what follows the last '.' of Parser (all of it when
\* there is no '.', the empty string for an empty Parser), and
\* GetListenerByParser(p) returns a listener whose final segment is p when
\* there is one and none otherwise, so that a listener configured with the
\* fully qualified class name is found by the simple name.
C18_ListenerByParser ==
    /\ \A i \in 1..Len(config.Listeners) :
          LET l == config.Listeners[i]
          IN  /\ FinalSegment(l.Parser, GetParser(l))
              /\ (\A k \in 1..Len(l.Parser) : l.Parser[k] # ".") => GetParser(l) = l.Parser
    /\ lookup.called =>
          /\ lookup.found # <<>> =>
                /\ \E i \in 1..Len(config.Listeners) : config.Listeners[i] = lookup.found[1]
                /\ FinalSegment(lookup.found[1].Parser, lookup.parser)
          /\ lookup.found = <<>> =>
                \A i \in 1..Len(config.Listeners) :
                    ~FinalSegment(config.Listeners[i].Parser, lookup.parser)

\* The listener with the fully qualified parser was found by the simple name.
C18_Witness ==
    /\ lookup.called /\ lookup.parser = <<"NxosGrpcParser">>
    /\ lookup.found # <<>>
    /\ lookup.found[1].Parser = <<"org", ".", "opennms", ".", "NxosGrpcParser">>

\* C19: whatever the order in which the chunks of a message arrive, the
\* payload handed to the application is the complete original payload, it is
\* handed over exactly once, and only after all its chunks have arrived.
C19_OrderIndependent ==
    /\ Len(codec.handed) <= 1
    /\ \A i \in 1..Len(codec.handed) : codec.handed[i] = codec.payload /\ codec.wire = {}
    /\ (codec.payload # <<>> /\ codec.wire = {}) => Len(codec.handed) = 1

\* C20: the receive loop never waits for Execute: processRequest returns and
\* the loop goes to its next iteration while the Execute of the request it
\* just dispatched has not been called, and a request stays receivable while
\* the worker of an earlier request is in Execute.
C20_NoHeadOfLineStep ==
    \A s \in RpcIds :
        /\ (recvLoop_request(s) /\ GetRPCModule(req'[nextReq].module))
              => /\ loop'[s].pc = "check"
                 /\ req'[nextReq].w = "exec" /\ ~req'[nextReq].executed
        /\ (recvLoop_request(s) \/ recvLoop_check(s) \/ recvLoop_callRecv(s))
              => \A r \in ReqIds : req[r].w = "exec" => req'[r].w = "exec"

C20_NoHeadOfLine == [][C20_NoHeadOfLineStep]_vars

\* The worker of the first request is still in Execute; the second request
\* was received after it, executed and answered.
C20_Witness ==
    \E r1, r2 \in ReqIds :
        /\ r1 < r2
        /\ req[r1].w = "exec" /\ ~req[r1].executed
        /\ req[r2].executed /\ req[r2].respOn # NIL

\* The calls of sendResponse that have returned.
SendResponseReturned == {r \in ReqIds : req[r].response = "response" /\ req[r].w = "done"}

\* Each returned call counted once: succeeded when the response was written,
\* failed otherwise; a returned call is not made again.
C21_ResponseState ==
    /\ rpcMetrics.resSentSucceeded
          = Cardinality({r \in SendResponseReturned : req[r].respOn # NIL})
    /\ rpcMetrics.resSentFailed
          = Cardinality({r \in SendResponseReturned : req[r].respOn = NIL})

\* The steps of sendResponse: a call whose check fails returns without
\* writing and counts a failure; a call whose check passed writes, returns and
\* counts the outcome of the write; a call that returned stays returned.
C21_ResponseStep ==
    \A r \in ReqIds :
        /\ (worker_Execute(r) /\ req'[r].response = "response" /\ req'[r].w = "done")
              => /\ rpcStream = NIL \/ connState # "Ready"
                 /\ rpc' = rpc /\ rpcMutex' = rpcMutex
                 /\ rpcMetrics'.resSentFailed = rpcMetrics.resSentFailed + 1
                 /\ rpcMetrics'.resSentSucceeded = rpcMetrics.resSentSucceeded
        /\ (worker_Execute(r) /\ req'[r].w = "lock")
              => rpcStream # NIL /\ connState = "Ready"
        /\ sendResponse_send(r)
              => /\ crashed' = "no" /\ req'[r].w = "done"
                 /\ rpcMetrics'.resSentSucceeded + rpcMetrics'.resSentFailed
                       = rpcMetrics.resSentSucceeded + rpcMetrics.resSentFailed + 1
                 /\ rpcMetrics'.resSentSucceeded > rpcMetrics.resSentSucceeded
                       <=> req'[r].respOn # NIL
        /\ req[r].w = "done" => req'[r].w = "done"

\* C21: sendResponse writes the response only when the RPC stream is present
\* and the connection Ready at its check, and otherwise returns an error
\* without writing; every call increments exactly one of rpc_res_sent_succeeded
\* and rpc_res_sent_failed, succeeded exactly when it returns no error, and a
\* failed response is dropped, not retried.
C21_ResponseCounted == []C21_ResponseState /\ [][C21_ResponseStep]_vars

\* The configuration disables the NX-OS module: no listener has NxosGrpcParser
\* as the final segment of its parser, or the first that has it has port 0.
NxosDisabled(cfg) ==
    LET ms == {i \in 1..Len(cfg.Listeners) :
                  FinalSegment(cfg.Listeners[i].Parser, NxosParser)}
    IN  ms = {} \/ cfg.Listeners[CHOOSE i \in ms : \A j \in ms : i <= j].Port = 0

\* A disabled module is idle after Start, and stays so whatever Stop does.
C22_IdleState ==
    (nxos.ret # "none" /\ NxosDisabled(config))
        => /\ nxos.ret = "nil" /\ crashed = "no"
           /\ nxos.server = "nil" /\ nxos.socket = "none" /\ nxos.serve = "none"
           /\ \A k \in SessionIds : nxos.sessions[k] = NoSession

\* Stop on a disabled module changes no field of it.
C22_IdleStep ==
    (NxosGrpcModule_Stop /\ NxosDisabled(config))
        => nxos' = [nxos EXCEPT !.stops = @ + 1] /\ crashed' = "no"

\* C22: when the configuration has no listener whose parser segment is
\* NxosGrpcParser, or that listener's Port is 0, the module's Start returns no
\* error and leaves the module idle (no server, no socket, no worker), and a
\* later Stop changes nothing and does not fail.
C22_DisabledIdle == []C22_IdleState /\ [][C22_IdleStep]_vars

\* The listener of the parser has port 0; Start returned nil and Stop was
\* called twice.
C22_Witness ==
    /\ nxos.ret = "nil" /\ nxos.stops = 2 /\ nxos.server = "nil"
    /\ \E i \in 1..Len(config.Listeners) :
          FinalSegment(config.Listeners[i].Parser, NxosParser)
    /\ NxosDisabled(config)

\* The handler task of session k is running.
HandlerRunning(k) == nxos.sessions[k].pc \in {"recv", "failed"}

\* A second Stop changes no field of the module.
C23_StopAgainStep ==
    (NxosGrpcModule_Stop /\ nxos.stops >= 1) => nxos' = [nxos EXCEPT !.stops = @ + 1]

\* C23 (checked under NxosLiveSpec): every MdtDialout handler task eventually
\* terminates once its client session has ended or the module's Stop has been
\* called, so that after Stop no worker of the module is still running; a
\* second Stop has no further effect.
C23_HandlersTerminate ==
    /\ \A k \in SessionIds :
          (HandlerRunning(k) /\ (nxos.sessions[k].closed \/ nxos.stops > 0))
              ~> ~HandlerRunning(k)
    /\ [][C23_StopAgainStep]_vars

\* C24: under any interleaving of Send calls, RPC workers, receive loops and
\* stream reinitializations (failed ones included) no task is at a write to or
\* a read from a stream while the stream is absent: a Send or sendResponse
\* that passed its check does not reach its write with the field nil, and no
\* task panics on a nil stream.
C24_NoAbsentStream ==
    /\ crashed \notin {"nilSinkStream", "nilRpcStream"}
    /\ \A m \in Modules : snd[m].pc = "write" => sinkStream # NIL
    /\ \A r \in ReqIds : req[r].w = "send" => rpcStream # NIL
    /\ \A s \in RpcIds : loop[s].pc \in {"hdrSend", "callRecv"} => rpcStream # NIL

\* The supervisors that have not returned.
ActiveSupervisors == {s \in RpcIds : sup[s] \in {"wait", "init", "sleep"}}

\* C25: after any sequence of RPC stream terminations and reinitializations at
\* most one supervisor is active, a receive loop started for one stream never
\* reads from a later stream, and no two receive loops read the same stream.
C25_OneReceiveLoop ==
    /\ Cardinality(ActiveSupervisors) <= 1
    /\ \A s \in RpcIds : loop[s].target \in {NIL, s}
    /\ \A s1, s2 \in RpcIds :
          (s1 # s2 /\ loop[s1].pc = "recv" /\ loop[s2].pc = "recv")
              => loop[s1].target # loop[s2].target

\* C26: while the broker is started and not stopped RPC reception is never
\* lost for good: there is no state in which no receive loop is running, the
\* termination signal of the stream has not fired and no reinitialization is
\* pending.
C26_ReceptionKept ==
    (mainPc = "running" /\ crashed = "no" /\ rpcStream # NIL)
        => \/ \E s \in RpcIds : loop[s].pc \notin {"none", "done"}
           \/ rpc[rpcStream].done
           \/ \E s \in RpcIds : sup[s] \in {"init", "sleep"}


=============================================================================
